---- MODULE Spec2Model ----
(***************************************************************************)
(* Status LED driver of the kabarga shield (status_led.c).                 *)
(*                                                                         *)
(* Two work-queue threads execute handlers: "anim" is the thread of        *)
(* animation_work_q (k_work_schedule_for_queue(&animation_work_q, ...)),   *)
(* "sys" is the thread of the kernel's system work queue, which is where   *)
(* k_work_reschedule(&check_ble_conn_work, ...) puts its work item.        *)
(* Every handler is cut into atomic steps at its shared-memory accesses:   *)
(* set_individual_led_brightness is two steps (hardware write, then cache  *)
(* write), and the threads' steps interleave freely; k_msleep only yields  *)
(* the processor, which the interleaving already allows at every step.     *)
(* Time is counted in seconds left on each armed delayable work.           *)
(***************************************************************************)
EXTENDS Integers, Sequences, FiniteSets, TLC

(* ------------------------------------------------------------------ *)
(* Program constants                                                   *)
(* ------------------------------------------------------------------ *)
FADE_DURATION_PROFILE_MS == 400
FADE_DURATION_BATTERY_MS == 800
FADE_DURATION_USB_MS == 400
FADE_DURATION_DISCONNECT_MS == 300
BLINK_HOLD_DURATION_MS == 100
LED_STATUS_ON == 100
LED_STATUS_OFF == 0
LED_FADE_STEPS == 100
LED_COUNT == 4

\* enum zmk_usb_conn_state, and the usb_dc_status_code the suspend test uses
ZMK_USB_CONN_NONE == 0
ZMK_USB_CONN_POWERED == 1
ZMK_USB_CONN_HID == 2
USB_DC_SUSPEND == 5

\* K_SECONDS(4) of the disconnect check, K_SECONDS(1) of the first battery run
CHECK_DELAY_S == 4
BATTERY_DELAY_S == 1

\* the mask of the disconnect blink, 0b0001, and the base of the profile mask, 0b1000
CHECK_MASK == 1
PROFILE_MASK_BASE == 8

(* ------------------------------------------------------------------ *)
(* Bounds of the model                                                 *)
(* ------------------------------------------------------------------ *)
\* fade steps used where only the interleaving of the writes matters
FadeStepsBound == 2
\* number of events (profile, USB, show_battery, BLE link changes) in a run,
\* and in a run checked for what happens forever
MaxEvents == 2
MaxEventsFair == 1
\* number of events in a run whose history is kept, and of profile-change
\* events and BLE link changes in a run with no other event
MaxEventsWatched == 2
MaxProfileEvents == 3

Leds == 0 .. (LED_COUNT - 1)
Threads == {"anim", "sys"}
Works == {"battery", "profile", "usbconn", "usbanim", "check"}
UsbStates == {ZMK_USB_CONN_NONE, ZMK_USB_CONN_POWERED, ZMK_USB_CONN_HID, USB_DC_SUSPEND}
ProfileIndices == 0 .. 3
Durations == {FADE_DURATION_DISCONNECT_MS, FADE_DURATION_PROFILE_MS, FADE_DURATION_BATTERY_MS}

VARIABLES
    led_hw,                 \* last brightness written to the hardware, per LED
    led_brightness,         \* the cache led_brightness[]
    is_connection_checking,
    usb_conn_state,
    profile_count_blink,
    ble_connected,          \* what zmk_ble_active_profile_is_connected() returns
    battery_level,          \* what zmk_battery_state_of_charge() returns
    initialized,            \* initialize_leds has run
    queue,                  \* per work-queue thread: the submitted works, in order
    delayed,                \* per work: seconds left on its timer, -1 when not armed
    thr,                    \* per work-queue thread: the frame of the running handler
    fade_steps,             \* the step count of the fades
    budget,                 \* events the run may still deliver
    led_start,              \* the brightness of every LED when the primitive
                            \* run on its own was called
    hist                    \* what has happened so far, kept where a property
                            \* speaks of the past

vars == <<led_hw, led_brightness, is_connection_checking, usb_conn_state,
          profile_count_blink, ble_connected, battery_level, initialized,
          queue, delayed, thr, fade_steps, budget, led_start, hist>>

leds == <<led_hw, led_brightness>>
flags == <<is_connection_checking, usb_conn_state, profile_count_blink>>
inputs == <<ble_connected, battery_level, budget, led_start>>
env == <<inputs, hist>>
works == <<queue, delayed>>

(* ------------------------------------------------------------------ *)
(* Frames                                                              *)
(* ------------------------------------------------------------------ *)
\* work: the handler running; pc: its next statement; ret: where the running
\* primitive returns to; n: usb_animation_handler's loop index; led, mask,
\* count, dur: the primitive's arguments; delay: its step_delay; i, j, k: its
\* loop indices; val: the brightness argument of the set-brightness call in
\* progress; nw: hardware writes made by the primitive so far; calls: blink
\* calls made by the handler so far; prim: the primitive called last.
IdleFrame ==
    [work |-> "none", pc |-> "idle", ret |-> "none", n |-> 0, led |-> 0,
     mask |-> 0, count |-> 0, dur |-> 0, delay |-> 0, i |-> 0, j |-> 0, k |-> 0,
     val |-> 0, nw |-> 0, calls |-> 0, prim |-> "none"]

U8(x) == x % 256

\* the primitive returns: the caller goes on at f.ret ("done": the handler
\* returns to its work queue; "halt": nothing follows)
Return(f) == [f EXCEPT !.pc = f.ret]

(* ------------------------------------------------------------------ *)
(* History                                                             *)
(* ------------------------------------------------------------------ *)
\* on: the history is kept in this run; valid, ignored: the profile-change
\* events delivered with an index <= 2 and with a larger one; index: the index
\* of the last valid one; blinks, mask: the blinks the profile handler has
\* made and the mask of its last one; reqs: the animation handlers requested
\* and not started since, in the order of the requests; subs: the animation
\* handlers submitted to the animation queue and not started since, in the
\* order of the submissions; fresh: the USB handler has set
\* is_connection_checking with BLE not connected and the USB state none, and
\* no check invocation has found connectivity since.
NoHistory ==
    [on |-> FALSE, valid |-> 0, ignored |-> 0, index |-> -1, blinks |-> 0,
     mask |-> 0, reqs |-> <<>>, subs |-> <<>>, fresh |-> FALSE]

\* the handlers that animate: battery_animation_handler, ble_profile_handler,
\* usb_animation_handler
Animations == {"battery", "profile", "usbanim"}

Noted(h) == IF hist.on THEN h ELSE hist

Member(seq, w) == \E x \in 1 .. Len(seq) : seq[x] = w

Requested(reqs, w) == IF Member(reqs, w) THEN reqs ELSE Append(reqs, w)

Without(reqs, w) == SelectSeq(reqs, LAMBDA x : x # w)

(* ------------------------------------------------------------------ *)
(* fade_in_led                                                         *)
(* ------------------------------------------------------------------ *)
FadeInValue(i) == U8((LED_STATUS_ON * i) \div fade_steps)

\* the loop written with < in place of <=
FadeInMoreExclusive(i) == i + 1 < fade_steps

FadeInMore(i) == i + 1 <= fade_steps

CallFadeIn(f, led, dur, ret) ==
    [f EXCEPT !.pc = "fi_hw", !.ret = ret, !.led = led, !.dur = dur,
              !.delay = dur \div fade_steps, !.i = 0, !.nw = 0,
              !.prim = "fade_in"]

FadeInHw(t) ==
    /\ thr[t].pc = "fi_hw"
    /\ LET f == thr[t]
           b == FadeInValue(f.i)
       IN /\ led_hw' = [led_hw EXCEPT ![f.led] = b]
          /\ thr' = [thr EXCEPT ![t] = [f EXCEPT !.pc = "fi_cache", !.val = b,
                                                 !.nw = @ + 1]]
    /\ UNCHANGED <<led_brightness, flags, env, initialized, works, fade_steps>>

FadeInCache(t) ==
    /\ thr[t].pc = "fi_cache"
    /\ LET f == thr[t]
       IN /\ led_brightness' = [led_brightness EXCEPT ![f.led] = f.val]
          /\ thr' = [thr EXCEPT ![t] =
                       IF FadeInMore(f.i)
                       THEN [f EXCEPT !.pc = "fi_hw", !.i = @ + 1]
                       ELSE Return(f)]
    /\ UNCHANGED <<led_hw, flags, env, initialized, works, fade_steps>>

(* ------------------------------------------------------------------ *)
(* fade_out_all_leds                                                   *)
(* ------------------------------------------------------------------ *)
\* the fade-out scaled from full brightness in place of the cached one
FadeOutValueFromFull(cur, j) == U8((LED_STATUS_ON * j) \div fade_steps)

FadeOutValue(cur, j) == U8((cur * j) \div fade_steps)

FadeOutMore(j) == j - 1 >= 0

CallFadeOut(f, dur, ret) ==
    [f EXCEPT !.pc = "fo_hw", !.ret = ret, !.dur = dur,
              !.delay = dur \div fade_steps, !.j = fade_steps, !.k = 0, !.nw = 0,
              !.prim = "fade_out"]

FadeOutHw(t) ==
    /\ thr[t].pc = "fo_hw"
    /\ LET f == thr[t]
           b == FadeOutValue(led_brightness[f.k], f.j)
       IN /\ led_hw' = [led_hw EXCEPT ![f.k] = b]
          /\ thr' = [thr EXCEPT ![t] = [f EXCEPT !.pc = "fo_cache", !.val = b,
                                                 !.nw = @ + 1]]
    /\ UNCHANGED <<led_brightness, flags, env, initialized, works, fade_steps>>

FadeOutCache(t) ==
    /\ thr[t].pc = "fo_cache"
    /\ LET f == thr[t]
       IN /\ led_brightness' = [led_brightness EXCEPT ![f.k] = f.val]
          /\ thr' = [thr EXCEPT ![t] =
                       IF f.k + 1 < LED_COUNT
                       THEN [f EXCEPT !.pc = "fo_hw", !.k = @ + 1]
                       ELSE IF FadeOutMore(f.j)
                       THEN [f EXCEPT !.pc = "fo_hw", !.k = 0, !.j = @ - 1]
                       ELSE Return(f)]
    /\ UNCHANGED <<led_hw, flags, env, initialized, works, fade_steps>>

(* ------------------------------------------------------------------ *)
(* smooth_blink_leds                                                   *)
(* ------------------------------------------------------------------ *)
\* the mask read LSB-first: led_mask & (1 << k)
InMaskLsbFirst(mask, k) == (mask \div (2 ^ k)) % 2 = 1

\* led_mask & (1 << (LED_COUNT - 1 - k))
InMask(mask, k) == (mask \div (2 ^ (LED_COUNT - 1 - k))) % 2 = 1

\* the next iteration of the k loop after k that passes the mask test;
\* LED_COUNT when the loop ends first
NextLed(mask, k) ==
    LET later == {m \in Leds : m > k /\ InMask(mask, m)}
    IN IF later = {} THEN LED_COUNT
       ELSE CHOOSE m \in later : \A x \in later : m <= x

BlinkInValue(j) == U8((LED_STATUS_ON * j) \div fade_steps)

BlinkOutValue(cur, j) == U8((cur * j) \div fade_steps)

BlinkInMore(j) == j + 1 <= fade_steps

\* the ramp down stopped one step early
BlinkOutMoreExclusive(j) == j - 1 > 0

BlinkOutMore(j) == j - 1 >= 0

BlinkRepeat(i, count) == i + 1 < count

\* a call with no repetition to run, or that selects no LED, makes no write
CallBlink(f, mask, count, dur, ret) ==
    LET g == [f EXCEPT !.ret = ret, !.mask = mask, !.count = count, !.dur = dur,
                       !.delay = dur \div (2 * fade_steps), !.i = 0, !.j = 0,
                       !.k = NextLed(mask, -1), !.nw = 0, !.calls = @ + 1,
                       !.prim = "blink"]
    IN IF 0 < count /\ NextLed(mask, -1) < LED_COUNT
       THEN [g EXCEPT !.pc = "bl_in_hw"]
       ELSE Return(g)

BlinkInHw(t) ==
    /\ thr[t].pc = "bl_in_hw"
    /\ LET f == thr[t]
           b == BlinkInValue(f.j)
       IN /\ led_hw' = [led_hw EXCEPT ![f.k] = b]
          /\ thr' = [thr EXCEPT ![t] = [f EXCEPT !.pc = "bl_in_cache", !.val = b,
                                                 !.nw = @ + 1]]
    /\ UNCHANGED <<led_brightness, flags, env, initialized, works, fade_steps>>

BlinkInCache(t) ==
    /\ thr[t].pc = "bl_in_cache"
    /\ LET f == thr[t]
           nk == NextLed(f.mask, f.k)
       IN /\ led_brightness' = [led_brightness EXCEPT ![f.k] = f.val]
          /\ thr' = [thr EXCEPT ![t] =
                       IF nk < LED_COUNT
                       THEN [f EXCEPT !.pc = "bl_in_hw", !.k = nk]
                       ELSE IF BlinkInMore(f.j)
                       THEN [f EXCEPT !.pc = "bl_in_hw", !.j = @ + 1,
                                      !.k = NextLed(f.mask, -1)]
                       ELSE [f EXCEPT !.pc = "bl_out_hw", !.j = fade_steps,
                                      !.k = NextLed(f.mask, -1)]]
    /\ UNCHANGED <<led_hw, flags, env, initialized, works, fade_steps>>

BlinkOutHw(t) ==
    /\ thr[t].pc = "bl_out_hw"
    /\ LET f == thr[t]
           b == BlinkOutValue(led_brightness[f.k], f.j)
       IN /\ led_hw' = [led_hw EXCEPT ![f.k] = b]
          /\ thr' = [thr EXCEPT ![t] = [f EXCEPT !.pc = "bl_out_cache", !.val = b,
                                                 !.nw = @ + 1]]
    /\ UNCHANGED <<led_brightness, flags, env, initialized, works, fade_steps>>

BlinkOutCache(t) ==
    /\ thr[t].pc = "bl_out_cache"
    /\ LET f == thr[t]
           nk == NextLed(f.mask, f.k)
       IN /\ led_brightness' = [led_brightness EXCEPT ![f.k] = f.val]
          /\ thr' = [thr EXCEPT ![t] =
                       IF nk < LED_COUNT
                       THEN [f EXCEPT !.pc = "bl_out_hw", !.k = nk]
                       ELSE IF BlinkOutMore(f.j)
                       THEN [f EXCEPT !.pc = "bl_out_hw", !.j = @ - 1,
                                      !.k = NextLed(f.mask, -1)]
                       ELSE IF BlinkRepeat(f.i, f.count)
                       THEN [f EXCEPT !.pc = "bl_in_hw", !.i = @ + 1, !.j = 0,
                                      !.k = NextLed(f.mask, -1)]
                       ELSE Return(f)]
    /\ UNCHANGED <<led_hw, flags, env, initialized, works, fade_steps>>

(* ------------------------------------------------------------------ *)
(* Delayable work: k_work_schedule_for_queue, k_work_reschedule, the   *)
(* timers and the work-queue threads                                   *)
(* ------------------------------------------------------------------ *)
\* animation_work_q for every work scheduled with k_work_schedule_for_queue,
\* the system work queue for check_ble_conn_work (k_work_reschedule)
WorkQueue(w) == IF w = "check" THEN "sys" ELSE "anim"

Queued(w) == \E x \in 1 .. Len(queue[WorkQueue(w)]) : queue[WorkQueue(w)][x] = w

Armed(w) == delayed[w] >= 0

Running(w) == \E t \in Threads : thr[t].work = w

\* the work put at the head of its queue
SubmittedFirst(w) ==
    IF Queued(w) THEN queue
    ELSE [queue EXCEPT ![WorkQueue(w)] = <<w>> \o @]

\* the timer's expiry and K_NO_WAIT submit the work unless it is queued already
Submitted(w) ==
    IF Queued(w) THEN queue
    ELSE [queue EXCEPT ![WorkQueue(w)] = Append(@, w)]

\* the schedule that cancels the pending timer and arms the work anew
KWorkScheduleRearms(w, secs) ==
    IF Queued(w)
    THEN UNCHANGED <<queue, delayed>>
    ELSE IF secs = 0
    THEN queue' = Submitted(w) /\ delayed' = [delayed EXCEPT ![w] = -1]
    ELSE delayed' = [delayed EXCEPT ![w] = secs] /\ UNCHANGED queue

\* k_work_schedule_for_queue: nothing when the work is armed or queued
KWorkScheduleForQueue(w, secs) ==
    IF Armed(w) \/ Queued(w)
    THEN UNCHANGED <<queue, delayed>>
    ELSE IF secs = 0
    THEN queue' = Submitted(w) /\ UNCHANGED delayed
    ELSE delayed' = [delayed EXCEPT ![w] = secs] /\ UNCHANGED queue

\* k_work_reschedule: the timer is cancelled and armed anew
KWorkReschedule(w, secs) ==
    /\ delayed' = [delayed EXCEPT ![w] = secs]
    /\ UNCHANGED queue

\* one second passes on every armed timer; an expired timer fires first
Tick ==
    /\ \E w \in Works : delayed[w] > 0
    /\ \A w \in Works : delayed[w] # 0
    /\ delayed' = [w \in Works |-> IF delayed[w] > 0 THEN delayed[w] - 1 ELSE delayed[w]]
    /\ UNCHANGED <<leds, flags, env, initialized, queue, thr, fade_steps>>

Expire(w) ==
    /\ delayed[w] = 0
    /\ delayed' = [delayed EXCEPT ![w] = -1]
    /\ queue' = Submitted(w)
    /\ hist' = IF w \in Animations
               THEN Noted([hist EXCEPT !.subs = Requested(@, w)])
               ELSE hist
    /\ UNCHANGED <<leds, flags, inputs, initialized, thr, fade_steps>>

Entry(w) ==
    CASE w = "battery" -> "bat"
      [] w = "profile" -> "prof"
      [] w = "usbconn" -> "usbc_test"
      [] w = "usbanim" -> "usba_test"
      [] w = "check" -> "chk_test"

\* the work-queue thread takes the first submitted work and calls its handler
Take(t) ==
    /\ thr[t].pc = "idle"
    /\ queue[t] # <<>>
    /\ queue' = [queue EXCEPT ![t] = Tail(@)]
    /\ thr' = [thr EXCEPT ![t] = [IdleFrame EXCEPT !.work = Head(queue[t]),
                                                 !.pc = Entry(Head(queue[t]))]]
    /\ hist' = Noted([hist EXCEPT !.reqs = Without(@, Head(queue[t])),
                                  !.subs = Without(@, Head(queue[t]))])
    /\ UNCHANGED <<leds, flags, inputs, initialized, delayed, fade_steps>>

\* the handler has returned to its work queue
Finish(t) ==
    /\ thr[t].pc = "done"
    /\ thr' = [thr EXCEPT ![t] = IdleFrame]
    /\ UNCHANGED <<leds, flags, env, initialized, works, fade_steps>>

(* ------------------------------------------------------------------ *)
(* check_bluetooth_connection_handler                                  *)
(* ------------------------------------------------------------------ *)
\* the handler tests && where the code tests ||
CheckConnectedBoth == ble_connected /\ usb_conn_state # ZMK_USB_CONN_NONE

\* the handler tests the negation of the code's condition
CheckConnectedNegated == ~(ble_connected \/ usb_conn_state # ZMK_USB_CONN_NONE)

CheckConnected == ble_connected \/ usb_conn_state # ZMK_USB_CONN_NONE

\* the blink on the first LED, 0b1000
CheckMaskFirstLed == PROFILE_MASK_BASE

CheckMask == CHECK_MASK

CheckTest(t) ==
    /\ thr[t].pc = "chk_test"
    /\ thr' = [thr EXCEPT ![t] =
                 IF ~is_connection_checking THEN [@ EXCEPT !.pc = "done"]
                 ELSE IF CheckConnected THEN [@ EXCEPT !.pc = "chk_clear"]
                 ELSE CallBlink(@, CheckMask, 1, FADE_DURATION_DISCONNECT_MS,
                                "chk_arm")]
    /\ hist' = IF is_connection_checking /\ CheckConnected
               THEN Noted([hist EXCEPT !.fresh = FALSE])
               ELSE hist
    /\ UNCHANGED <<leds, flags, inputs, initialized, works, fade_steps>>

CheckClear(t) ==
    /\ thr[t].pc = "chk_clear"
    /\ is_connection_checking' = FALSE
    /\ thr' = [thr EXCEPT ![t] = [@ EXCEPT !.pc = "done"]]
    /\ hist' = Noted([hist EXCEPT !.fresh = FALSE])
    /\ UNCHANGED <<leds, usb_conn_state, profile_count_blink, inputs, initialized,
                   works, fade_steps>>

CheckArm(t) ==
    /\ thr[t].pc = "chk_arm"
    /\ KWorkReschedule("check", CHECK_DELAY_S)
    /\ thr' = [thr EXCEPT ![t] = [@ EXCEPT !.pc = "done"]]
    /\ UNCHANGED <<leds, flags, env, initialized, fade_steps>>

(* ------------------------------------------------------------------ *)
(* usb_animation_handler                                               *)
(* ------------------------------------------------------------------ *)
UsbAnimTest(t) ==
    /\ thr[t].pc = "usba_test"
    /\ thr' = [thr EXCEPT ![t] =
                 IF usb_conn_state = USB_DC_SUSPEND
                 THEN CallFadeOut(@, FADE_DURATION_DISCONNECT_MS, "done")
                 ELSE CallFadeIn([@ EXCEPT !.n = 0], 0, FADE_DURATION_USB_MS,
                                 "usba_next")]
    /\ UNCHANGED <<leds, flags, env, initialized, works, fade_steps>>

\* after a fade-in: the next LED's, or the fade-out of all
UsbAnimNext(t) ==
    /\ thr[t].pc = "usba_next"
    /\ thr' = [thr EXCEPT ![t] =
                 IF @.n + 1 < LED_COUNT
                 THEN CallFadeIn([@ EXCEPT !.n = @ + 1], @.n + 1,
                                 FADE_DURATION_USB_MS, "usba_next")
                 ELSE CallFadeOut(@, FADE_DURATION_USB_MS, "done")]
    /\ UNCHANGED <<leds, flags, env, initialized, works, fade_steps>>

(* ------------------------------------------------------------------ *)
(* battery_animation_handler                                           *)
(* ------------------------------------------------------------------ *)
\* the thresholds tested with < in place of <=
BatteryCountExclusive(level) ==
    IF level < 15 THEN 3
    ELSE IF level < 80 THEN 1
    ELSE 3

BatteryMask(level) ==
    IF level <= 15 THEN 8
    ELSE IF level <= 30 THEN 8
    ELSE IF level <= 50 THEN 12
    ELSE IF level <= 80 THEN 14
    ELSE 14

BatteryCount(level) ==
    IF level <= 15 THEN 3
    ELSE IF level <= 80 THEN 1
    ELSE 3

BatteryHandler(t) ==
    /\ thr[t].pc = "bat"
    /\ thr' = [thr EXCEPT ![t] =
                 CallBlink(@, BatteryMask(U8(battery_level)),
                           BatteryCount(U8(battery_level)),
                           FADE_DURATION_BATTERY_MS, "done")]
    /\ UNCHANGED <<leds, flags, env, initialized, works, fade_steps>>

(* ------------------------------------------------------------------ *)
(* initialize_leds, show_battery                                       *)
(* ------------------------------------------------------------------ *)
\* the initializer scheduling the first battery run with no delay
InitializeLedsNoDelay ==
    /\ ~initialized
    /\ initialized' = TRUE
    /\ led_hw' = [x \in Leds |-> LED_STATUS_OFF]
    /\ KWorkScheduleForQueue("battery", 0)
    /\ UNCHANGED <<led_brightness, flags, env, thr, fade_steps>>

\* turn_off_all_leds writes the hardware and not the cache
InitializeLeds ==
    /\ ~initialized
    /\ initialized' = TRUE
    /\ led_hw' = [x \in Leds |-> LED_STATUS_OFF]
    /\ KWorkScheduleForQueue("battery", BATTERY_DELAY_S)
    /\ UNCHANGED <<led_brightness, flags, env, thr, fade_steps>>

ShowBattery ==
    /\ initialized
    /\ budget > 0
    /\ budget' = budget - 1
    /\ KWorkScheduleForQueue("battery", 0)
    /\ hist' = Noted([hist EXCEPT !.reqs = Requested(@, "battery"),
                                  !.subs = IF Armed("battery") THEN @
                                           ELSE Requested(@, "battery")])
    /\ UNCHANGED <<leds, flags, ble_connected, battery_level, led_start, initialized,
                   thr, fade_steps>>

(* ------------------------------------------------------------------ *)
(* ble_profile_handler, ble_profile_listener                           *)
(* ------------------------------------------------------------------ *)
ProfileMask(index) == U8(PROFILE_MASK_BASE \div (2 ^ index))

ProfileBlink(t) ==
    /\ thr[t].pc = "prof"
    /\ thr' = [thr EXCEPT ![t] =
                 CallBlink(@, ProfileMask(profile_count_blink), 1,
                           FADE_DURATION_PROFILE_MS, "prof_test")]
    /\ hist' = Noted([hist EXCEPT !.blinks = @ + 1,
                                  !.mask = ProfileMask(profile_count_blink)])
    /\ UNCHANGED <<leds, flags, inputs, initialized, works, fade_steps>>

\* the handler starting the check loop whatever the flag is
ProfileTestAlways(t) ==
    /\ thr[t].pc = "prof_test"
    /\ thr' = [thr EXCEPT ![t] = [@ EXCEPT !.pc = "prof_set"]]
    /\ UNCHANGED <<leds, flags, env, initialized, works, fade_steps>>

ProfileTest(t) ==
    /\ thr[t].pc = "prof_test"
    /\ thr' = [thr EXCEPT ![t] =
                 IF ~is_connection_checking THEN [@ EXCEPT !.pc = "prof_set"]
                 ELSE [@ EXCEPT !.pc = "done"]]
    /\ UNCHANGED <<leds, flags, env, initialized, works, fade_steps>>

ProfileSet(t) ==
    /\ thr[t].pc = "prof_set"
    /\ is_connection_checking' = TRUE
    /\ thr' = [thr EXCEPT ![t] = [@ EXCEPT !.pc = "prof_arm"]]
    /\ UNCHANGED <<leds, usb_conn_state, profile_count_blink, env, initialized,
                   works, fade_steps>>

ProfileArm(t) ==
    /\ thr[t].pc = "prof_arm"
    /\ KWorkReschedule("check", CHECK_DELAY_S)
    /\ thr' = [thr EXCEPT ![t] = [@ EXCEPT !.pc = "done"]]
    /\ UNCHANGED <<leds, flags, env, initialized, fade_steps>>

\* the history after a profile-change event with this index
ProfileNoted(index) ==
    IF index <= 2
    THEN [hist EXCEPT !.valid = @ + 1, !.index = index,
                      !.reqs = Requested(@, "profile"),
                      !.subs = Requested(@, "profile")]
    ELSE [hist EXCEPT !.ignored = @ + 1]

\* the listener accepting index 3 as well
ProfileEventAnyIndex(index) ==
    /\ initialized
    /\ budget > 0
    /\ budget' = budget - 1
    /\ IF index <= 3
       THEN /\ profile_count_blink' = index
            /\ KWorkScheduleForQueue("profile", 0)
       ELSE UNCHANGED <<profile_count_blink, works>>
    /\ hist' = Noted(ProfileNoted(index))
    /\ UNCHANGED <<leds, is_connection_checking, usb_conn_state, ble_connected,
                   battery_level, led_start, initialized, thr, fade_steps>>

\* the listener keeping the index of the first event while the work is pending
ProfileEventFirstWins(index) ==
    /\ initialized
    /\ budget > 0
    /\ budget' = budget - 1
    /\ IF index <= 2
       THEN /\ profile_count_blink' =
                  IF Queued("profile") THEN profile_count_blink ELSE index
            /\ KWorkScheduleForQueue("profile", 0)
       ELSE UNCHANGED <<profile_count_blink, works>>
    /\ hist' = Noted(ProfileNoted(index))
    /\ UNCHANGED <<leds, is_connection_checking, usb_conn_state, ble_connected,
                   battery_level, led_start, initialized, thr, fade_steps>>

ProfileEvent(index) ==
    /\ initialized
    /\ budget > 0
    /\ budget' = budget - 1
    /\ IF index <= 2
       THEN /\ profile_count_blink' = index
            /\ KWorkScheduleForQueue("profile", 0)
       ELSE UNCHANGED <<profile_count_blink, works>>
    /\ hist' = Noted(ProfileNoted(index))
    /\ UNCHANGED <<leds, is_connection_checking, usb_conn_state, ble_connected,
                   battery_level, led_start, initialized, thr, fade_steps>>

(* ------------------------------------------------------------------ *)
(* usb_connection_handler, usb_connection_listener                     *)
(* ------------------------------------------------------------------ *)
UsbConnTest(t) ==
    /\ thr[t].pc = "usbc_test"
    /\ IF usb_conn_state = ZMK_USB_CONN_POWERED
       THEN /\ KWorkScheduleForQueue("usbanim", 0)
            /\ thr' = [thr EXCEPT ![t] = [@ EXCEPT !.pc = "done"]]
            /\ hist' = Noted([hist EXCEPT !.subs = Requested(@, "usbanim")])
       ELSE /\ thr' = [thr EXCEPT ![t] = [@ EXCEPT !.pc = "usbc_set"]]
            /\ UNCHANGED <<works, hist>>
    /\ UNCHANGED <<leds, flags, inputs, initialized, fade_steps>>

UsbConnSet(t) ==
    /\ thr[t].pc = "usbc_set"
    /\ is_connection_checking' = TRUE
    /\ thr' = [thr EXCEPT ![t] = [@ EXCEPT !.pc = "usbc_arm"]]
    /\ hist' = Noted([hist EXCEPT !.fresh =
                         ~ble_connected /\ usb_conn_state = ZMK_USB_CONN_NONE])
    /\ UNCHANGED <<leds, usb_conn_state, profile_count_blink, inputs, initialized,
                   works, fade_steps>>

UsbConnArm(t) ==
    /\ thr[t].pc = "usbc_arm"
    /\ KWorkReschedule("check", CHECK_DELAY_S)
    /\ thr' = [thr EXCEPT ![t] = [@ EXCEPT !.pc = "done"]]
    /\ UNCHANGED <<leds, flags, env, initialized, fade_steps>>

UsbEvent(state) ==
    /\ initialized
    /\ budget > 0
    /\ budget' = budget - 1
    /\ usb_conn_state' = state
    /\ KWorkScheduleForQueue("usbconn", 0)
    /\ hist' = Noted([hist EXCEPT !.reqs =
                         IF state = ZMK_USB_CONN_POWERED THEN Requested(@, "usbanim")
                         ELSE IF Queued("usbanim") THEN @
                         ELSE Without(@, "usbanim")])
    /\ UNCHANGED <<leds, is_connection_checking, profile_count_blink,
                   ble_connected, battery_level, led_start, initialized, thr,
                   fade_steps>>

(* ------------------------------------------------------------------ *)
(* The BLE link of the active profile comes and goes                   *)
(* ------------------------------------------------------------------ *)
BleChange ==
    /\ initialized
    /\ budget > 0
    /\ budget' = budget - 1
    /\ ble_connected' = ~ble_connected
    /\ UNCHANGED <<leds, flags, battery_level, led_start, hist, initialized, works,
                   thr, fade_steps>>

(* ------------------------------------------------------------------ *)
(* The program                                                         *)
(* ------------------------------------------------------------------ *)
BatteryLevels == {25, 45}

Boot(n) ==
    /\ led_hw = [x \in Leds |-> 0]
    /\ led_brightness = [x \in Leds |-> 0]
    /\ is_connection_checking = FALSE
    /\ usb_conn_state = ZMK_USB_CONN_NONE
    /\ profile_count_blink = 1
    /\ ble_connected \in BOOLEAN
    /\ battery_level \in BatteryLevels
    /\ initialized = FALSE
    /\ queue = [t \in Threads |-> <<>>]
    /\ delayed = [w \in Works |-> -1]
    /\ thr = [t \in Threads |-> IdleFrame]
    /\ fade_steps = FadeStepsBound
    /\ budget = n
    /\ led_start = [x \in Leds |-> 0]

Init == Boot(MaxEvents) /\ hist = NoHistory

Step(t) ==
    \/ Take(t)
    \/ Finish(t)
    \/ CheckTest(t)
    \/ CheckClear(t)
    \/ CheckArm(t)
    \/ UsbAnimTest(t)
    \/ UsbAnimNext(t)
    \/ BatteryHandler(t)
    \/ ProfileBlink(t)
    \/ ProfileTest(t)
    \/ ProfileSet(t)
    \/ ProfileArm(t)
    \/ UsbConnTest(t)
    \/ UsbConnSet(t)
    \/ UsbConnArm(t)
    \/ FadeInHw(t)
    \/ FadeInCache(t)
    \/ FadeOutHw(t)
    \/ FadeOutCache(t)
    \/ BlinkInHw(t)
    \/ BlinkInCache(t)
    \/ BlinkOutHw(t)
    \/ BlinkOutCache(t)

Next ==
    \/ InitializeLeds
    \/ ShowBattery
    \/ \E index \in ProfileIndices : ProfileEvent(index)
    \/ \E state \in UsbStates : UsbEvent(state)
    \/ BleChange
    \/ Tick
    \/ \E w \in Works : Expire(w)
    \/ \E t \in Threads : Step(t)

Spec == Init /\ [][Next]_vars

\* the work-queue threads run while they have work, and the timers run
InitFair == Boot(MaxEventsFair) /\ hist = NoHistory

SpecFair ==
    /\ InitFair
    /\ [][Next]_vars
    /\ \A t \in Threads : WF_vars(Step(t))
    /\ WF_vars(Tick)
    /\ WF_vars(\E w \in Works : Expire(w))

(* ------------------------------------------------------------------ *)
(* The program with its history kept                                   *)
(* ------------------------------------------------------------------ *)
History == [NoHistory EXCEPT !.on = TRUE]

\* the run starts with the BLE link down and the battery at a quarter
InitWatched ==
    /\ Boot(MaxEventsWatched)
    /\ ~ble_connected
    /\ battery_level = 25
    /\ hist = History

SpecWatched == InitWatched /\ [][Next]_vars

(* ------------------------------------------------------------------ *)
(* Profile changes only: the USB state stays none and show_battery is  *)
(* not called                                                          *)
(* ------------------------------------------------------------------ *)
InitProfile == Boot(MaxProfileEvents) /\ hist = History

StepProfile(t) ==
    \/ Take(t)
    \/ Finish(t)
    \/ CheckTest(t)
    \/ CheckClear(t)
    \/ CheckArm(t)
    \/ BatteryHandler(t)
    \/ ProfileBlink(t)
    \/ ProfileTest(t)
    \/ ProfileSet(t)
    \/ ProfileArm(t)
    \/ BlinkInHw(t)
    \/ BlinkInCache(t)
    \/ BlinkOutHw(t)
    \/ BlinkOutCache(t)

NextProfile ==
    \/ InitializeLeds
    \/ \E index \in ProfileIndices : ProfileEvent(index)
    \/ BleChange
    \/ Tick
    \/ \E w \in Works : Expire(w)
    \/ \E t \in Threads : StepProfile(t)

SpecProfile == InitProfile /\ [][NextProfile]_vars

(* ------------------------------------------------------------------ *)
(* The battery handler on its own: one run, from any battery level     *)
(* ------------------------------------------------------------------ *)
InitBattery ==
    /\ battery_level \in 0 .. 100
    /\ is_connection_checking \in BOOLEAN
    /\ usb_conn_state \in UsbStates
    /\ profile_count_blink \in 0 .. 2
    /\ \E v \in {LED_STATUS_OFF, LED_STATUS_ON} :
          /\ led_hw = [x \in Leds |-> IF x = LED_COUNT - 1 THEN v ELSE 0]
          /\ led_brightness = led_hw
    /\ led_start = [x \in Leds |-> 0]
    /\ ble_connected = FALSE
    /\ initialized = TRUE
    /\ queue = [t \in Threads |-> <<>>]
    /\ delayed = [w \in Works |-> -1]
    /\ thr = [t \in Threads |->
                IF t = "anim"
                THEN [IdleFrame EXCEPT !.work = "battery", !.pc = Entry("battery")]
                ELSE IdleFrame]
    /\ fade_steps = FadeStepsBound
    /\ budget = 0
    /\ hist = NoHistory

NextBattery ==
    \E t \in Threads :
       \/ BatteryHandler(t)
       \/ BlinkInHw(t)
       \/ BlinkInCache(t)
       \/ BlinkOutHw(t)
       \/ BlinkOutCache(t)
       \/ Finish(t)

SpecBattery == InitBattery /\ [][NextBattery]_vars

(* ------------------------------------------------------------------ *)
(* The animation primitives on their own: one call, run to its return  *)
(* ------------------------------------------------------------------ *)
\* repetitions of a blink tried
MaxCount == 2
BrightnessSamples == {0, 37, 100}
Masks == 0 .. (2 ^ LED_COUNT - 1)

\* every LED at its own level, LED 0 at b
StartLevels(b) == [x \in Leds |-> (b + 25 * x) % (LED_STATUS_ON + 1)]

InitFade ==
    /\ fade_steps = LED_FADE_STEPS
    /\ \E b \in 0 .. LED_STATUS_ON :
          /\ led_hw = StartLevels(b)
          /\ led_brightness = StartLevels(b)
          /\ led_start = StartLevels(b)
          /\ \E d \in Durations :
                \/ /\ b \in BrightnessSamples
                   /\ \E l \in Leds :
                         thr = [t \in Threads |->
                                  IF t = "anim"
                                  THEN CallFadeIn(IdleFrame, l, d, "halt")
                                  ELSE IdleFrame]
                \/ /\ d = FADE_DURATION_USB_MS
                   /\ thr = [t \in Threads |->
                               IF t = "anim" THEN CallFadeOut(IdleFrame, d, "halt")
                               ELSE IdleFrame]
                \/ /\ b \in BrightnessSamples
                   /\ \E m \in Masks, c \in 0 .. MaxCount :
                         thr = [t \in Threads |->
                                  IF t = "anim"
                                  THEN CallBlink(IdleFrame, m, c, d, "halt")
                                  ELSE IdleFrame]
    /\ is_connection_checking = FALSE
    /\ usb_conn_state = ZMK_USB_CONN_NONE
    /\ profile_count_blink = 1
    /\ ble_connected = FALSE
    /\ battery_level = 0
    /\ initialized = TRUE
    /\ queue = [t \in Threads |-> <<>>]
    /\ delayed = [w \in Works |-> -1]
    /\ budget = 0
    /\ hist = NoHistory

NextFade ==
    \E t \in Threads :
       \/ FadeInHw(t)
       \/ FadeInCache(t)
       \/ FadeOutHw(t)
       \/ FadeOutCache(t)
       \/ BlinkInHw(t)
       \/ BlinkInCache(t)
       \/ BlinkOutHw(t)
       \/ BlinkOutCache(t)

SpecFade == InitFade /\ [][NextFade]_vars

(* ------------------------------------------------------------------ *)
(* Properties of the animation primitives (under SpecFade)             *)
(* ------------------------------------------------------------------ *)
Halted(t, prim) == thr[t].pc = "halt" /\ thr[t].prim = prim

\* bit (3-k) of the mask is set
MaskBit(mask, k) == (mask \div (2 ^ (3 - k))) % 2 = 1

\* C6: fade_out_all_leds started when LED k has brightness B writes
\* floor(B*j/100) to LED k at step j, B being the brightness LED k had when
\* the fade-out began.
FadeOutScalesFromStart ==
    \A t \in Threads :
       thr[t].pc = "fo_cache" =>
          thr[t].val = (led_start[thr[t].k] * thr[t].j) \div 100

\* C7: the values fade_out_all_leds writes to a LED never increase, and when
\* the fade-out returns every LED's brightness, written and cached, is 0.
FadeOutMonotoneToZero ==
    /\ [][\A t \in Threads :
             (thr[t].prim = "fade_out" /\ thr[t].pc \in {"fo_hw", "fo_cache"}) =>
                \A x \in Leds : led_hw'[x] <= led_hw[x]]_vars
    /\ [](\A t \in Threads :
             Halted(t, "fade_out") =>
                \A x \in Leds : led_hw[x] = 0 /\ led_brightness[x] = 0)

FadeOutDone ==
    /\ Halted("anim", "fade_out")
    /\ led_start[0] = 100
    /\ thr["anim"].nw = 404
    /\ \A x \in Leds : led_hw[x] = 0

\* C8: fade_in_led makes exactly 101 writes, all to its LED; write i has the
\* value floor(100*i/100), the first is 0, the last is 100, no write is
\* below the one before it, and no other LED changes.
FadeInRamp ==
    \A t \in Threads :
       LET f == thr[t]
       IN /\ f.pc = "fi_cache" =>
               /\ f.val = (100 * f.i) \div 100
               /\ led_hw[f.led] = f.val
               /\ f.nw = f.i + 1
               /\ (f.i = 0 => f.val = 0)
               /\ (f.i > 0 => f.val >= led_brightness[f.led])
          /\ (f.prim = "fade_in" /\ f.pc \in {"fi_hw", "fi_cache", "halt"}) =>
               \A x \in Leds \ {f.led} :
                  led_hw[x] = led_start[x] /\ led_brightness[x] = led_start[x]
          /\ Halted(t, "fade_in") =>
               /\ f.nw = 101
               /\ led_hw[f.led] = 100
               /\ led_brightness[f.led] = 100

FadeInDone ==
    /\ Halted("anim", "fade_in")
    /\ thr["anim"].led = 2
    /\ thr["anim"].dur = 800
    /\ thr["anim"].nw = 101
    /\ led_hw[2] = 100
    /\ led_hw[1] = 62

\* C9: smooth_blink_leds writes only the LEDs k whose bit (3-k) is set in the
\* mask; every other LED has, in every state of the blink, the brightness it
\* had when the blink started.
BlinkTouchesOnlyMask ==
    \A t \in Threads :
       LET f == thr[t]
       IN f.prim = "blink" =>
            /\ f.pc \in {"bl_in_hw", "bl_in_cache", "bl_out_hw", "bl_out_cache"} =>
                  MaskBit(f.mask, f.k)
            /\ \A x \in Leds :
                  ~MaskBit(f.mask, x) =>
                     led_hw[x] = led_start[x] /\ led_brightness[x] = led_start[x]
            /\ f.mask = 8 =>
                  \A x \in 1 .. 3 :
                     led_hw[x] = led_start[x] /\ led_brightness[x] = led_start[x]

BlinkFirstLedOnly ==
    /\ Halted("anim", "blink")
    /\ thr["anim"].mask = 8
    /\ thr["anim"].count = 2
    /\ thr["anim"].nw = 404
    /\ led_start[0] = 37
    /\ led_hw = [x \in Leds |-> IF x = 0 THEN 0 ELSE led_start[x]]

(* ------------------------------------------------------------------ *)
(* Properties of the program (under Spec and SpecFair)                 *)
(* ------------------------------------------------------------------ *)
AnimationPcs ==
    {"fi_hw", "fi_cache", "fo_hw", "fo_cache",
     "bl_in_hw", "bl_in_cache", "bl_out_hw", "bl_out_cache"}

BlinkPcs == {"bl_in_hw", "bl_in_cache", "bl_out_hw", "bl_out_cache"}

CacheWritePcs == {"fi_cache", "fo_cache", "bl_in_cache", "bl_out_cache"}

InAnimation(t) == thr[t].pc \in AnimationPcs

CheckBlinking(t) == thr[t].work = "check" /\ thr[t].pc \in BlinkPcs

NoConnectivity == ~ble_connected /\ usb_conn_state = 0

\* C1: at most one animation primitive is executing at any time, the blink of
\* the disconnect-check handler included.
OneAnimationAtATime ==
    Cardinality({t \in Threads : InAnimation(t)}) <= 1

\* C2: whenever no set-brightness call is between its hardware write and its
\* cache write, led_brightness[k] is the value last written to the hardware
\* for LED k, for every k.
CacheMatchesHardware ==
    (\A t \in Threads : thr[t].pc \notin CacheWritePcs) =>
       \A x \in Leds : led_brightness[x] = led_hw[x]

\* C3: a check invocation that finds the flag set and BLE connected or the USB
\* state not none makes no blink, clears is_connection_checking and does not
\* arm the check work; a disconnect blink starts only with the flag set and no
\* connectivity, none is in progress while the flag is clear, and only the
\* profile handler and the USB handler set the flag.
CheckStopsOnConnectivity ==
    [][/\ \A t \in Threads :
            (/\ thr[t].pc = "chk_test"
             /\ thr'[t] # thr[t]
             /\ is_connection_checking
             /\ (ble_connected \/ usb_conn_state # 0)) =>
               /\ thr'[t].pc = "chk_clear"
               /\ UNCHANGED <<led_hw, led_brightness, queue, delayed>>
       /\ \A t \in Threads :
            (thr[t].pc = "chk_clear" /\ thr'[t] # thr[t]) =>
               /\ ~is_connection_checking'
               /\ thr'[t].pc = "done"
               /\ UNCHANGED <<led_hw, led_brightness, queue, delayed>>
       /\ \A t \in Threads :
            (CheckBlinking(t)' /\ ~CheckBlinking(t)) =>
               is_connection_checking /\ NoConnectivity
       /\ \A t \in Threads :
            (CheckBlinking(t) /\ ~is_connection_checking') => FALSE
       /\ (~is_connection_checking /\ is_connection_checking') =>
            \E t \in Threads :
               /\ thr[t].pc \in {"prof_set", "usbc_set"}
               /\ thr'[t] # thr[t]]_vars

CheckStopping ==
    /\ thr["sys"].pc = "chk_clear"
    /\ is_connection_checking
    /\ ble_connected
    /\ usb_conn_state = 0
    /\ ~Armed("check")
    /\ ~Queued("check")

\* C4: the check invocation that finds the flag set and no connectivity blinks
\* once and then arms the check work 4 seconds later; and from any state with
\* the flag set and the check work armed or queued, if BLE is never connected
\* and the USB state stays none from there on, the flag stays set and
\* disconnect blinks happen again and again. (The loop is active with no
\* connectivity seen: an invocation that has already found connectivity and
\* is about to clear the flag is not such a state.)
LoopPending ==
    /\ is_connection_checking
    /\ Armed("check") \/ Queued("check")
    /\ \A t \in Threads : thr[t].pc # "chk_clear"

CheckBlinkChangesOnlyLed0 ==
    [][\A t \in Threads :
          (CheckBlinking(t) /\ thr'[t] # thr[t]) =>
             \A x \in {1, 2, 3} :
                led_hw'[x] = led_hw[x] /\ led_brightness'[x] = led_brightness[x]]_vars

\* C5 as amended: each blink of the disconnect-check loop blinks LED 3 once;
\* its steps write LED 3 only and leave LEDs 0, 1 and 2 as they are, and when
\* it returns it has made one ramp up and one ramp down.
CheckBlinkWritesOnlyLed3 ==
    /\ [][\A t \in Threads :
             (CheckBlinking(t) /\ thr'[t] # thr[t]) =>
                /\ thr[t].k = 3
                /\ thr[t].count = 1
                /\ \A x \in {0, 1, 2} :
                      /\ led_hw'[x] = led_hw[x]
                      /\ led_brightness'[x] = led_brightness[x]]_vars
    /\ [](\A t \in Threads :
             thr[t].pc = "chk_arm" =>
                thr[t].calls = 1 /\ thr[t].nw = 2 * (fade_steps + 1))

CheckBlinkReturned ==
    /\ thr["sys"].pc = "chk_arm"
    /\ thr["sys"].nw = 2 * (fade_steps + 1)
    /\ led_hw[3] = 0
    /\ led_brightness[3] = 0

\* C12: the USB handler that finds the USB state powered schedules the USB
\* animation and does not start the disconnect-check loop; the one that
\* finds any other state schedules no USB animation, sets
\* is_connection_checking and arms the check 4 seconds later. The USB
\* animation fades LEDs 0, 1, 2, 3 in to 100 one after another, each LED at
\* 100 when the next one starts, and then fades all LEDs out to 0.
UsbHandlerAndAnimation ==
    /\ [][\A t \in Threads :
             /\ (thr[t].pc = "usbc_test" /\ thr'[t] # thr[t]) =>
                   IF usb_conn_state = 1
                   THEN /\ Queued("usbanim")'
                        /\ thr'[t].pc = "done"
                        /\ UNCHANGED <<is_connection_checking, delayed>>
                   ELSE /\ thr'[t].pc = "usbc_set"
                        /\ UNCHANGED <<queue, delayed>>
             /\ (thr[t].pc = "usbc_set" /\ thr'[t] # thr[t]) =>
                   /\ is_connection_checking'
                   /\ thr'[t].pc = "usbc_arm"
                   /\ UNCHANGED queue
             /\ (thr[t].pc = "usbc_arm" /\ thr'[t] # thr[t]) =>
                   /\ delayed'["check"] = 4
                   /\ thr'[t].pc = "done"
                   /\ UNCHANGED queue]_vars
    /\ [](\A t \in Threads :
             (thr[t].work = "usbanim" /\ thr[t].pc = "usba_next") =>
                \A x \in 0 .. thr[t].n :
                   led_hw[x] = 100 /\ led_brightness[x] = 100)
    /\ [](\A t \in Threads :
             (thr[t].work = "usbanim" /\ thr[t].pc = "done") =>
                \A x \in Leds : led_hw[x] = 0 /\ led_brightness[x] = 0)

\* C13: a USB connection-state-change event that carries the suspended state
\* results in fade_out_all_leds: the USB handler that processes it schedules
\* the USB animation work, whose handler, finding the state suspended, fades
\* all LEDs out and runs no fade-in.
SuspendEventFadesOut ==
    [][\A t \in Threads :
          /\ (/\ thr[t].pc = "usbc_test"
              /\ thr'[t] # thr[t]
              /\ usb_conn_state = USB_DC_SUSPEND) =>
                Queued("usbanim")'
          /\ (/\ thr[t].pc = "usba_test"
              /\ thr'[t] # thr[t]
              /\ usb_conn_state = USB_DC_SUSPEND) =>
                thr'[t].prim = "fade_out" /\ thr'[t].pc = "fo_hw"]_vars

StartedBy(t) ==
    IF thr[t].work = "none" /\ thr'[t].work \in Animations
    THEN thr'[t].work
    ELSE "none"

\* C15 as stated: a request does not preempt the running animation, and of
\* two requests among a valid profile change, a USB change to powered and
\* show_battery, for distinct handlers, the animation of the one requested
\* first starts (and completes) before the animation of the other starts.
RequestsServedInOrder ==
    [][\A t \in Threads :
          /\ (thr[t].work \in Animations /\ thr'[t].work # thr[t].work) =>
                thr[t].pc = "done"
          /\ (StartedBy(t) # "none" /\ Member(hist.reqs, StartedBy(t))) =>
                /\ Head(hist.reqs) = StartedBy(t)
                /\ \A u \in Threads : thr[u].work \notin Animations]_vars

\* C15 as amended: a request does not preempt the running animation, and the
\* animations of distinct handlers run in the order in which their work items
\* were submitted to the animation queue: each animation handler that starts
\* is the one submitted first among those waiting, and it starts when no
\* other animation handler is running. (A valid profile change, and a
\* show_battery call made while the battery work is not armed, submit at the
\* request; the USB animation is submitted when the USB handler runs; an
\* armed battery work is submitted when its timer expires.)
SubmissionsServedInOrder ==
    [][\A t \in Threads :
          /\ (thr[t].work \in Animations /\ thr'[t].work # thr[t].work) =>
                thr[t].pc = "done"
          /\ StartedBy(t) # "none" =>
                /\ t = "anim"
                /\ hist.subs # <<>>
                /\ Head(hist.subs) = StartedBy(t)
                /\ \A u \in Threads : thr[u].work \notin Animations]_vars

ProfileBlinkBeforeUsbAnimation ==
    /\ thr["anim"].work = "profile"
    /\ thr["anim"].pc \in BlinkPcs
    /\ hist.reqs = <<"usbanim">>
    /\ hist.subs = <<"usbanim">>
    /\ queue["anim"] = <<"usbanim">>
    /\ usb_conn_state = 1

\* no event has been delivered and show_battery has not been called
NoEventYet == budget = MaxEvents

\* C16: the initializer leaves every LED at brightness 0 and arms the battery
\* work 1 second ahead; with no event and no show_battery call, no LED is
\* written and no handler runs before that second has passed, the battery
\* work is submitted only when its timer has run out, and the first
\* animation executed is the blink of the battery handler.
FirstAnimationIsBatteryAfterOneSecond ==
    /\ [][(~initialized /\ initialized') =>
             /\ \A x \in Leds : led_hw'[x] = 0 /\ led_brightness'[x] = 0
             /\ delayed'["battery"] = 1
             /\ UNCHANGED <<queue, thr>>]_vars
    /\ []((NoEventYet /\ (~initialized \/ Armed("battery") \/ Queued("battery"))) =>
             /\ \A t \in Threads : thr[t].pc = "idle"
             /\ \A x \in Leds : led_hw[x] = 0 /\ led_brightness[x] = 0)
    /\ [][(NoEventYet' /\ delayed["battery"] = 1 /\ delayed'["battery"] # 1) =>
             /\ delayed'["battery"] = 0
             /\ UNCHANGED <<led_hw, led_brightness, queue, thr>>]_vars
    /\ [][(NoEventYet' /\ ~Queued("battery") /\ Queued("battery")') =>
             delayed["battery"] = 0]_vars
    /\ [](NoEventYet =>
             \A t \in Threads :
                /\ thr[t].work \in {"none", "battery"}
                /\ InAnimation(t) => thr[t].prim = "blink")

FirstBatteryBlinkStarted ==
    /\ NoEventYet
    /\ thr["anim"].work = "battery"
    /\ thr["anim"].pc = "bl_in_cache"
    /\ thr["anim"].nw = 1
    /\ delayed["battery"] = -1
    /\ queue["anim"] = <<>>

CheckToCome ==
    \/ Armed("check")
    \/ Queued("check")
    \/ Running("check")
    \/ \E t \in Threads : thr[t].pc \in {"prof_arm", "usbc_arm"}

\* C19: whenever is_connection_checking is true a check invocation is to
\* come, under every interleaving of the check handler with the profile and
\* the USB handler; and the check handler never clears a flag that the USB
\* handler has set with the device disconnected unless it has tested the
\* connectivity, and found it, after the flag was set.
CheckFlagAndWorkAgree ==
    /\ [](is_connection_checking => CheckToCome)
    /\ [][\A t \in Threads :
             (thr[t].pc = "chk_clear" /\ thr'[t] # thr[t]) => ~hist.fresh]_vars

NoHandlerRunning == \A t \in Threads : thr[t].pc \in {"idle", "done"}

\* C20: whenever no handler is running on any work queue, the brightness
\* last written to every LED and its cached brightness are 0, after any
\* sequence of events and handler runs, overlapping ones included; and every
\* brightness written, to the hardware or to the cache, lies in 0..100.
LedsOffWhenIdle ==
    /\ NoHandlerRunning =>
          \A x \in Leds : led_hw[x] = 0 /\ led_brightness[x] = 0
    /\ \A x \in Leds : led_hw[x] \in 0 .. 100 /\ led_brightness[x] \in 0 .. 100
    /\ \A t \in Threads : thr[t].val \in 0 .. 100

IdleAfterCheckBlinkAndUsbAnimation ==
    /\ NoHandlerRunning
    /\ budget = 0
    /\ usb_conn_state = 1
    /\ is_connection_checking
    /\ thr["anim"].work = "usbanim"
    /\ thr["anim"].prim = "fade_out"
    /\ thr["anim"].nw = LED_COUNT * (fade_steps + 1)
    /\ thr["sys"].work = "check"
    /\ thr["sys"].prim = "blink"
    /\ thr["sys"].nw = 2 * (fade_steps + 1)
    /\ \A x \in Leds : led_hw[x] = 0 /\ led_brightness[x] = 0

(* ------------------------------------------------------------------ *)
(* Properties of the battery handler (under SpecBattery)               *)
(* ------------------------------------------------------------------ *)
ExpectedPattern(level) ==
    IF level <= 15 THEN <<8, 3>>
    ELSE IF level <= 30 THEN <<8, 1>>
    ELSE IF level <= 50 THEN <<12, 1>>
    ELSE IF level <= 80 THEN <<14, 1>>
    ELSE <<14, 3>>

\* C10: the battery handler blinks with the mask and the repeat count that the
\* battery percentage alone decides (<= 15: 0b1000 x3; 16..30: 0b1000 x1;
\* 31..50: 0b1100 x1; 51..80: 0b1110 x1; above 80: 0b1110 x3), whatever the
\* LED cache, the connection flag, the USB state and the profile index are,
\* and it makes exactly one blink call.
BatteryPatternByLevel ==
    \A t \in Threads :
       (thr[t].work = "battery" /\ thr[t].pc # "bat") =>
          /\ <<thr[t].mask, thr[t].count>> = ExpectedPattern(battery_level)
          /\ thr[t].prim = "blink"
          /\ thr[t].calls = 1
          /\ thr[t].dur = 800

BatteryBoundaryDone ==
    /\ thr["anim"].work = "battery"
    /\ thr["anim"].pc = "done"
    /\ battery_level = 16
    /\ thr["anim"].mask = 8
    /\ thr["anim"].count = 1
    /\ is_connection_checking
    /\ usb_conn_state = 1
    /\ led_brightness[3] = 100

(* ------------------------------------------------------------------ *)
(* Properties of the profile events (under SpecProfile)                *)
(* ------------------------------------------------------------------ *)
\* C11: a profile-change event whose index is greater than 2 schedules no
\* work and leaves profile_count_blink, is_connection_checking, the USB state
\* and the LED brightness cache unchanged, whatever the state it arrives in.
IgnoredProfileEventChangesNothing ==
    [][hist'.ignored > hist.ignored =>
          UNCHANGED <<profile_count_blink, is_connection_checking, usb_conn_state,
                      led_brightness, led_hw, queue, delayed, thr>>]_vars

IgnoredWhileProfilePending ==
    /\ hist.ignored = 1
    /\ hist.valid = 1
    /\ hist.index = 0
    /\ budget = MaxProfileEvents - 2
    /\ profile_count_blink = 0
    /\ queue["anim"] = <<"profile">>
    /\ thr["anim"].work = "battery"

Drained == queue["anim"] = <<>> /\ thr["anim"].pc = "idle" /\ ~Armed("profile")

\* C18: after any sequence of profile-change events, valid and out of range,
\* delivered while the profile work is idle, pending or running, once the
\* animation queue has drained the last blink of the profile handler used
\* mask 0b1000 >> i, i the index of the last valid event, and the handler has
\* blinked at least once and at most as many times as valid events came.
LastValidProfileWins ==
    /\ hist.blinks <= hist.valid
    /\ (Drained /\ hist.valid > 0) =>
          /\ hist.mask = 8 \div (2 ^ hist.index)
          /\ hist.blinks >= 1

TwoProfilesOneBlink ==
    /\ Drained
    /\ hist.valid = 2
    /\ hist.ignored = 1
    /\ hist.blinks = 1
    /\ hist.index = 2
    /\ hist.mask = 2
    /\ profile_count_blink = 2

====
